---------------------------- MODULE Spec2Model ----------------------------
(***************************************************************************)
(* Modbus RTU slave of Modbus/Modbus.cpp: the CRC engine, the request      *)
(* handler modbus_process_request, and the polled receive loop             *)
(* modbus_poll, driven by a master that puts bytes on the serial line.     *)
(***************************************************************************)
EXTENDS Integers, Sequences

(***************************************************************************)
(* Program constants (Modbus.cpp lines 5-34, 77, 132).                     *)
(***************************************************************************)
COIL_COUNT == 100
DISCRETE_INPUT_COUNT == 100
HOLDING_REGISTER_COUNT == 100
INPUT_REGISTER_COUNT == 100

FC_READ_COILS == 1
FC_READ_DISCRETE_INPUTS == 2
FC_READ_HOLDING_REGS == 3
FC_READ_INPUT_REGS == 4
FC_WRITE_SINGLE_COIL == 5
FC_WRITE_SINGLE_REG == 6
FC_WRITE_MULTIPLE_COILS == 15
FC_WRITE_MULTIPLE_REGS == 16

ERROR_ILLEGAL_FUNCTION == 1
ERROR_ILLEGAL_DATA_ADDRESS == 2
ERROR_ILLEGAL_DATA_VALUE == 3
ERROR_SLAVE_DEVICE_FAILURE == 4

\* if (slave_addr != 0x01) return;   (line 77)
SLAVE_ADDRESS == 1
\* static uint8_t rx_buffer[256];    (line 132), uint8_t response[256] (line 73)
RX_BUFFER_SIZE == 256

(***************************************************************************)
(* Bounds of the model.                                                    *)
(***************************************************************************)
\* longest byte sequence over CrcBytes given to modbus_crc16 on its own
MaxCrcLen == 4
\* depth of the UART receive FIFO behind uart_receive
FifoCap == 1
\* bytes the master puts on the line in one behaviour
MaxBytes == 16

(***************************************************************************)
(* Fixed-width integer operations of C, bit by bit.                        *)
(***************************************************************************)
Pow2 == << 1, 2, 4, 8, 16, 32, 64, 128, 256, 512, 1024, 2048, 4096, 8192,
           16384, 32768 >>

\* bit i - 1 of a ^ b, in place
XorBit(a, b, i) == (((a \div Pow2[i]) + (b \div Pow2[i])) % 2) * Pow2[i]

\* bit i - 1 of a | b, in place
OrBit(a, b, i) ==
    IF (a \div Pow2[i]) % 2 = 1 \/ (b \div Pow2[i]) % 2 = 1 THEN Pow2[i] ELSE 0

\* a ^ b for 16-bit operands
BitXor16(a, b) ==
    XorBit(a, b, 1) + XorBit(a, b, 2) + XorBit(a, b, 3) + XorBit(a, b, 4)
  + XorBit(a, b, 5) + XorBit(a, b, 6) + XorBit(a, b, 7) + XorBit(a, b, 8)
  + XorBit(a, b, 9) + XorBit(a, b, 10) + XorBit(a, b, 11) + XorBit(a, b, 12)
  + XorBit(a, b, 13) + XorBit(a, b, 14) + XorBit(a, b, 15) + XorBit(a, b, 16)

\* a ^ p for a single bit p = 2^k
FlipBit(a, p) == IF (a \div p) % 2 = 1 THEN a - p ELSE a + p

\* a | b for 16-bit operands
BitOr16(a, b) ==
    OrBit(a, b, 1) + OrBit(a, b, 2) + OrBit(a, b, 3) + OrBit(a, b, 4)
  + OrBit(a, b, 5) + OrBit(a, b, 6) + OrBit(a, b, 7) + OrBit(a, b, 8)
  + OrBit(a, b, 9) + OrBit(a, b, 10) + OrBit(a, b, 11) + OrBit(a, b, 12)
  + OrBit(a, b, 13) + OrBit(a, b, 14) + OrBit(a, b, 15) + OrBit(a, b, 16)

\* (uint16_t)((hi << 8) | lo) for two bytes (lines 64, 65, 69)
Word(hi, lo) == BitOr16(hi * 256, lo) % 65536

(***************************************************************************)
(* modbus_crc16 (lines 41-56).  data is indexed from 0, as in C.           *)
(***************************************************************************)
\* crc ^ 0x8005, the polynomial not reflected: 0x8005 = 0x8000 + 0x0004 + 0x0001
XorPolyNotReflected(crc) == FlipBit(FlipBit(FlipBit(crc, 32768), 4), 1)

\* crc ^ 0xA001: 0xA001 = 0x8000 + 0x2000 + 0x0001 (line 48)
XorPoly(crc) == FlipBit(FlipBit(FlipBit(crc, 32768), 8192), 1)

\* one pass of the inner loop body (lines 46-52)
CrcBit(crc) ==
    IF crc % 2 # 0
    THEN XorPoly(crc \div 2)             \* crc >>= 1; crc ^= 0xA001;
    ELSE crc \div 2                      \* crc >>= 1;

\* the inner loop from j on: for (; j < 8; j++) ...
CrcShift[crc \in 0 .. 65535, j \in 0 .. 8] ==
    IF j >= 8 THEN crc ELSE CrcShift[CrcBit(crc), j + 1]

\* one pass of the outer loop body: crc ^= (uint16_t)data[i]; then the inner loop
CrcByte(crc, byte) == CrcShift[BitXor16(crc, byte), 0]

\* The outer loop runs over i = 0 .. length - 1 in order; loop[lo, hi, crc] is
\* crc after the passes lo .. hi - 1, taken in two halves so that a long
\* frame does not nest the evaluation length deep.
modbus_crc16(data, length) ==
    LET loop[lo \in 0 .. length, hi \in 0 .. length, crc \in 0 .. 65535] ==
          IF lo >= hi THEN crc
          ELSE IF hi = lo + 1 THEN CrcByte(crc, data[lo])
          ELSE loop[(lo + hi) \div 2, hi, loop[lo, (lo + hi) \div 2, crc]]
    IN  loop[0, length, 65535]

\* a C array holding the bytes of sequence s from index 0
ArrayOf(s) == [i \in 0 .. (Len(s) - 1) |-> s[i + 1]]

(***************************************************************************)
(* modbus_process_request (lines 59-117).                                  *)
(* banks is the record of the four data banks; the result is the list of   *)
(* frames passed to uart_send, the banks afterwards and the set of bank    *)
(* cells <<bank, index>> read or written.                                  *)
(***************************************************************************)
NoEffect(banks) == [sent |-> << >>, banks |-> banks, access |-> {}]

\* the check with crc_received cut to its low byte
CrcOkLowByte(request, request_length) ==
    modbus_crc16(request, request_length - 2) % 256
        = request[request_length - 2]

\* lines 68-70: crc_calc == crc_received
CrcOk(request, request_length) ==
    LET crc_calc == modbus_crc16(request, request_length - 2)
        crc_received == Word(request[request_length - 1],
                             request[request_length - 2])
    IN  crc_calc = crc_received

\* the check turned into one for broadcast only
AddressAcceptedNonZero(slave_addr) == slave_addr # 0

\* line 77: the only accepted station address
AddressAccepted(slave_addr) == slave_addr = SLAVE_ADDRESS

\* the switch with a read-holding-registers case that reads count cells from
\* address on without a bounds check
DispatchUnchecked(slave_addr, function_code, address, count, banks) ==
    IF function_code = FC_READ_HOLDING_REGS
    THEN [response |-> << slave_addr, function_code, (2 * count) % 256 >>,
          banks |-> banks,
          access |-> { << "holding_registers", i >> :
                          i \in address .. (address + count - 1) }]
    ELSE IF function_code \in {FC_READ_COILS, FC_WRITE_SINGLE_COIL,
                               FC_WRITE_SINGLE_REG}
    THEN [response |-> << >>, banks |-> banks, access |-> {}]
    ELSE [response |-> << slave_addr,
                          BitOr16(function_code, 128) % 256,
                          ERROR_ILLEGAL_FUNCTION >>,
          banks |-> banks, access |-> {}]

\* the switch with a default branch that leaves the function code as it came
DispatchPlainCode(slave_addr, function_code, address, count, banks) ==
    IF function_code \in {FC_READ_COILS, FC_READ_HOLDING_REGS,
                          FC_WRITE_SINGLE_COIL, FC_WRITE_SINGLE_REG}
    THEN [response |-> << >>, banks |-> banks, access |-> {}]
    ELSE [response |-> << slave_addr, function_code, ERROR_ILLEGAL_FUNCTION >>,
          banks |-> banks, access |-> {}]

\* lines 80-106: the switch.  The four cases are empty; every other code
\* takes the default branch.  response is response[0 .. response_length-1].
Dispatch(slave_addr, function_code, address, count, banks) ==
    IF function_code \in {FC_READ_COILS, FC_READ_HOLDING_REGS,
                          FC_WRITE_SINGLE_COIL, FC_WRITE_SINGLE_REG}
    THEN [response |-> << >>, banks |-> banks, access |-> {}]
    ELSE [response |-> << slave_addr,
                          BitOr16(function_code, 128) % 256,
                          ERROR_ILLEGAL_FUNCTION >>,
          banks |-> banks, access |-> {}]

\* the CRC appended high byte first
AppendCrcHighFirst(response) ==
    LET crc == modbus_crc16(ArrayOf(response), Len(response))
    IN  response \o << crc \div 256, crc % 256 >>

\* lines 110-112: append the CRC, low byte first
AppendCrc(response) ==
    LET crc == modbus_crc16(ArrayOf(response), Len(response))
    IN  response \o << crc % 256, crc \div 256 >>

modbus_process_request(request, request_length, banks) ==
    IF request_length < 5 THEN NoEffect(banks)
    ELSE
      LET slave_addr == request[0]
          function_code == request[1]
          address == Word(request[2], request[3])
          count == Word(request[4], request[5])
      IN  IF ~CrcOk(request, request_length) THEN NoEffect(banks)
          ELSE IF ~AddressAccepted(slave_addr) THEN NoEffect(banks)
          ELSE
            LET d == Dispatch(slave_addr, function_code, address, count, banks)
            IN  [sent   |-> IF Len(d.response) > 0
                            THEN << AppendCrc(d.response) >>
                            ELSE << >>,
                 banks  |-> d.banks,
                 access |-> d.access]

\* the indices of request[] that a call reads: none before the return of
\* line 60; else 0 .. 5 for the header fields (lines 62-65), 0 ..
\* request_length - 3 in modbus_crc16 (line 68) and the two checksum bytes
\* (line 69)
RequestReads(request_length) ==
    IF request_length < 5 THEN {}
    ELSE      {0, 1, 2, 3, 4, 5}
         \cup (0 .. (request_length - 3))
         \cup {request_length - 2, request_length - 1}

(***************************************************************************)
(* The master's transmissions.                                             *)
(***************************************************************************)
\* a request body followed by its checksum, low byte first
Frame(body) ==
    LET crc == modbus_crc16(ArrayOf(body), Len(body))
    IN  body \o << crc % 256, crc \div 256 >>

\* a frame whose last checksum byte was damaged on the line
Damaged(frame) ==
    [frame EXCEPT ![Len(frame)] = BitXor16(frame[Len(frame)], 1)]

StandardFCs ==
    {FC_READ_COILS, FC_READ_DISCRETE_INPUTS, FC_READ_HOLDING_REGS,
     FC_READ_INPUT_REGS, FC_WRITE_SINGLE_COIL, FC_WRITE_SINGLE_REG,
     FC_WRITE_MULTIPLE_COILS, FC_WRITE_MULTIPLE_REGS}

\* station addresses on the bus: broadcast, this slave, another slave
Stations == {0, SLAVE_ADDRESS, 2}

\* One request: every function code, to every station, for cells 95 .. 104
\* (out of range) and, to this slave, for cells 95 .. 99 with the standard
\* codes; and each request to this slave with its checksum damaged.
Requests ==
         { Frame(<< st, fc, 0, 95, 0, 10 >>) : st \in Stations, fc \in 0 .. 255 }
    \cup { Frame(<< SLAVE_ADDRESS, fc, 0, 95, 0, 5 >>) : fc \in StandardFCs }
    \cup { Damaged(Frame(<< SLAVE_ADDRESS, fc, 0, 95, 0, 10 >>)) : fc \in 0 .. 255 }

\* A dialogue: several transmissions, one after the other.
Dialogue ==
    {  << 1, 3 >>,                               \* a truncated frame
       << 0, 0, 0, 1 >>,                         \* the rest of it
       Frame(<< 1, 6, 0, 10, 4, 210 >>),         \* write holding 10 := 1234
       Frame(<< 1, 3, 0, 10, 0, 1 >>),           \* read holding 10, 1
       Frame(<< 1, 7, 0 >>),                     \* the shortest frame
       Damaged(Frame(<< 1, 7, 0 >>)),
       Frame(<< 1, 16, 0, 0, 0, 3, 4, 0, 1, 0, 2 >>) } \* 3 registers in 4 bytes

\* a burst that fills the receive buffer: RX_BUFFER_SIZE bytes 0x00
Flood == [i \in 1 .. RX_BUFFER_SIZE |-> 0]

\* the same burst with a request to this slave at its end, no silence between
FloodThenRequest == Flood \o Frame(<< SLAVE_ADDRESS, 7, 0 >>)

\* a byte of a stream that does not end
Stream == << 0 >>

\* what the master sends in a behaviour: one request, a dialogue, a burst, or
\* a stream without end
Modes == {"request", "dialogue", "flood", "stream"}

Menu(m) ==
    CASE m = "request"  -> Requests
      [] m = "dialogue" -> Dialogue
      [] m = "flood"    -> {Flood, FloodThenRequest}
      [] m = "stream"   -> {Stream}

\* the bytes it may put on the line in all: MaxBytes in a dialogue, else
\* one transmission (a stream never uses its budget up)
Budget(m) ==
    IF m = "dialogue" THEN MaxBytes
    ELSE CHOOSE n \in { Len(s) : s \in Menu(m) } :
             \A s \in Menu(m) : Len(s) <= n

(***************************************************************************)
(* State.                                                                  *)
(***************************************************************************)
VARIABLES
    coils,              \* uint8_t coils[COIL_COUNT / 8 + 1]
    discrete_inputs,    \* uint8_t discrete_inputs[DISCRETE_INPUT_COUNT / 8 + 1]
    holding_registers,  \* uint16_t holding_registers[HOLDING_REGISTER_COUNT]
    input_registers,    \* uint16_t input_registers[INPUT_REGISTER_COUNT]
    rx_buffer,          \* static uint8_t rx_buffer[256] of modbus_poll
    rx_length,          \* static uint16_t rx_length
    frame_received,     \* static bool frame_received
    pc,                 \* "idle": outside modbus_poll; "loop": at uart_receive
    uart_rx,            \* bytes the UART holds for uart_receive, oldest first
    wire,               \* bytes of the current transmission not yet arrived
    silent,             \* a silence longer than the inter-character threshold
                        \* has passed since the last byte on the line
    mode,               \* what the master sends, one of Modes
    budget,             \* bytes the master may still put on the line
    wrote,              \* << a, v >> of the last write-single-register request
                        \* the slave was handed intact, << >> before any
    rx_gap,             \* the accumulated bytes span such a silence
    calls,              \* modbus_process_request calls of the current poll
    req_len,            \* request_length of the last such call
    req_gap,            \* rx_gap at that call
    banks_changed,      \* that call left some bank cell with another value
    access,             \* bank cells that call read or wrote
    wrapped,            \* rx_length was set back to 0 at line 148 during the
                        \* current poll
    crc_data,           \* the bytes data[0 .. length-1] of a call of modbus_crc16
                        \* on its own
    crc_result,         \* what that call returned, -1 before it has returned
    tx                  \* frames passed to uart_send during the current poll

vars == << coils, discrete_inputs, holding_registers, input_registers,
           rx_buffer, rx_length, frame_received, pc, uart_rx, wire, silent,
           mode, budget, wrote, rx_gap, calls, req_len, req_gap, banks_changed, access,
           wrapped, crc_data, crc_result, tx >>

bankVars == << coils, discrete_inputs, holding_registers, input_registers >>
pollVars == << rx_buffer, rx_length, frame_received, rx_gap >>
callVars == << calls, req_len, req_gap, banks_changed, access, tx, wrote >>
ghostVars == << callVars, wrapped >>
crcVars == << crc_data, crc_result >>
lineVars == << uart_rx, wire, silent, mode, budget >>

Banks == [coils             |-> coils,
          discrete_inputs   |-> discrete_inputs,
          holding_registers |-> holding_registers,
          input_registers   |-> input_registers]

\* static storage is zeroed; modbus_init (lines 120-128) zeroes
\* holding_registers again
Init ==
    /\ coils = [i \in 0 .. (COIL_COUNT \div 8) |-> 0]
    /\ discrete_inputs = [i \in 0 .. (DISCRETE_INPUT_COUNT \div 8) |-> 0]
    /\ holding_registers = [i \in 0 .. (HOLDING_REGISTER_COUNT - 1) |-> 0]
    /\ input_registers = [i \in 0 .. (INPUT_REGISTER_COUNT - 1) |-> 0]
    /\ rx_buffer = [i \in 0 .. (RX_BUFFER_SIZE - 1) |-> 0]
    /\ rx_length = 0
    /\ frame_received = FALSE
    /\ pc = "idle"
    /\ uart_rx = << >>
    /\ wire = << >>
    /\ silent = TRUE
    /\ mode \in Modes
    /\ budget = Budget(mode)
    /\ wrote = << >>
    /\ rx_gap = FALSE
    /\ calls = 0
    /\ req_len = 0
    /\ req_gap = FALSE
    /\ banks_changed = FALSE
    /\ access = {}
    /\ wrapped = FALSE
    /\ crc_data = << >>
    /\ crc_result = -1
    /\ tx = << >>

(***************************************************************************)
(* The serial line.                                                        *)
(***************************************************************************)
\* the master starts to send one of its transmissions
Transmit ==
    /\ wire = << >>
    /\ budget > 0
    /\ \E s \in Menu(mode) :
          /\ Len(s) <= budget
          /\ wire' = s
          /\ budget' = IF mode = "stream" THEN budget ELSE budget - Len(s)
    /\ UNCHANGED << bankVars, pollVars, ghostVars, crcVars, pc, uart_rx, silent,
                    mode >>

\* the next byte of the transmission reaches the UART
ByteArrive ==
    /\ wire # << >>
    /\ Len(uart_rx) < FifoCap
    /\ uart_rx' = Append(uart_rx, [byte |-> Head(wire), gap |-> silent])
    /\ wire' = Tail(wire)
    /\ silent' = FALSE
    /\ UNCHANGED << bankVars, pollVars, ghostVars, crcVars, pc, mode, budget >>

\* the line stays silent for longer than the inter-character threshold,
\* while the main loop has polled the UART empty
Gap ==
    /\ wire = << >>
    /\ uart_rx = << >>
    /\ pc = "idle"
    /\ ~silent
    /\ silent' = TRUE
    /\ UNCHANGED << bankVars, pollVars, ghostVars, crcVars, pc, uart_rx, wire,
                    mode, budget >>

\* frame[0 .. n-1] ends with the checksum of the bytes before it, low byte first
ChecksumOk(frame, n) ==
    /\ n >= 5
    /\ modbus_crc16(frame, n - 2) = frame[n - 1] * 256 + frame[n - 2]

\* frame[0 .. n-1] is an intact write-single-register request to this station
\* for one of its holding registers
IsWriteSingleReg(frame, n) ==
    /\ n = 8
    /\ frame[0] = SLAVE_ADDRESS
    /\ frame[1] = FC_WRITE_SINGLE_REG
    /\ frame[2] * 256 + frame[3] < HOLDING_REGISTER_COUNT
    /\ ChecksumOk(frame, n)

\* a burst is on the line; it outpaces the receive loop, so that uart_receive
\* finds a byte each time it is called until the burst ends
Flooding == mode = "flood" /\ wire # << >>

(***************************************************************************)
(* modbus_poll (lines 131-158).                                            *)
(***************************************************************************)
\* the main loop calls modbus_poll
PollCall ==
    /\ pc = "idle"
    /\ pc' = "loop"
    /\ calls' = 0
    /\ req_len' = 0
    /\ req_gap' = FALSE
    /\ banks_changed' = FALSE
    /\ access' = {}
    /\ wrapped' = FALSE
    /\ tx' = << >>
    /\ UNCHANGED << bankVars, pollVars, lineVars, crcVars, wrote >>

\* the loop body with the overflow test off by one: if (rx_length > 256)
PollReceiveLateWrap ==
    /\ pc = "loop"
    /\ uart_rx # << >>
    /\ LET byte == Head(uart_rx).byte
           len1 == (rx_length + 1) % 65536          \* rx_length++
       IN  /\ rx_buffer' = [rx_buffer EXCEPT ![rx_length] = byte]
           /\ frame_received' = IF len1 > 4 THEN TRUE ELSE frame_received
           /\ rx_length' = IF len1 > RX_BUFFER_SIZE THEN 0 ELSE len1
           /\ rx_gap' = IF len1 > RX_BUFFER_SIZE THEN FALSE
                        ELSE rx_gap \/ (rx_length > 0 /\ Head(uart_rx).gap)
           /\ wrapped' = (wrapped \/ len1 > RX_BUFFER_SIZE)
    /\ uart_rx' = Tail(uart_rx)
    /\ UNCHANGED << bankVars, callVars, crcVars, pc, wire, silent, mode, budget >>

\* uart_receive(&byte) returns true: one pass of the loop body (lines 139-149)
PollReceive ==
    /\ pc = "loop"
    /\ uart_rx # << >>
    /\ LET byte == Head(uart_rx).byte
           len1 == (rx_length + 1) % 65536          \* rx_length++
       IN  /\ rx_buffer' = [rx_buffer EXCEPT ![rx_length] = byte]
           /\ frame_received' = IF len1 > 4 THEN TRUE ELSE frame_received
           /\ rx_length' = IF len1 >= RX_BUFFER_SIZE THEN 0 ELSE len1
           /\ rx_gap' = IF len1 >= RX_BUFFER_SIZE THEN FALSE
                        ELSE rx_gap \/ (rx_length > 0 /\ Head(uart_rx).gap)
           /\ wrapped' = (wrapped \/ len1 >= RX_BUFFER_SIZE)
    /\ uart_rx' = Tail(uart_rx)
    /\ UNCHANGED << bankVars, callVars, crcVars, pc, wire, silent, mode, budget >>

\* the end of modbus_poll without line 155, rx_length = 0
PollReturnKeepsLength ==
    /\ pc = "loop"
    /\ uart_rx = << >>
    /\ ~Flooding
    /\ pc' = "idle"
    /\ IF frame_received
       THEN \E r \in {modbus_process_request(rx_buffer, rx_length, Banks)} :
                /\ coils' = r.banks.coils
                /\ discrete_inputs' = r.banks.discrete_inputs
                /\ holding_registers' = r.banks.holding_registers
                /\ input_registers' = r.banks.input_registers
                /\ tx' = tx \o r.sent
                /\ access' = r.access
                /\ calls' = calls + 1
                /\ req_len' = rx_length
                /\ req_gap' = rx_gap
                /\ banks_changed' = (r.banks # Banks)
                /\ wrote' = IF IsWriteSingleReg(rx_buffer, rx_length)
                             THEN << rx_buffer[2] * 256 + rx_buffer[3],
                                     rx_buffer[4] * 256 + rx_buffer[5] >>
                             ELSE wrote
                /\ frame_received' = FALSE
                /\ rx_gap' = FALSE
                /\ UNCHANGED << rx_buffer, rx_length, wrapped >>
       ELSE UNCHANGED << bankVars, pollVars, ghostVars >>
    /\ UNCHANGED << lineVars, crcVars >>

\* uart_receive returns false (the UART holds no byte, and no burst keeps it
\* filled): the loop ends, the frame is processed (lines 153-157) and
\* modbus_poll returns
PollReturn ==
    /\ pc = "loop"
    /\ uart_rx = << >>
    /\ ~Flooding
    /\ pc' = "idle"
    /\ IF frame_received
       THEN \E r \in {modbus_process_request(rx_buffer, rx_length, Banks)} :
                /\ coils' = r.banks.coils
                /\ discrete_inputs' = r.banks.discrete_inputs
                /\ holding_registers' = r.banks.holding_registers
                /\ input_registers' = r.banks.input_registers
                /\ tx' = tx \o r.sent
                /\ access' = r.access
                /\ calls' = calls + 1
                /\ req_len' = rx_length
                /\ req_gap' = rx_gap
                /\ banks_changed' = (r.banks # Banks)
                /\ wrote' = IF IsWriteSingleReg(rx_buffer, rx_length)
                             THEN << rx_buffer[2] * 256 + rx_buffer[3],
                                     rx_buffer[4] * 256 + rx_buffer[5] >>
                             ELSE wrote
                /\ rx_length' = 0
                /\ frame_received' = FALSE
                /\ rx_gap' = FALSE
                /\ UNCHANGED << rx_buffer, wrapped >>
       ELSE UNCHANGED << bankVars, pollVars, ghostVars >>
    /\ UNCHANGED << lineVars, crcVars >>

Next ==
    \/ Transmit
    \/ ByteArrive
    \/ Gap
    \/ PollCall
    \/ PollReceive
    \/ PollReturn

Spec == Init /\ [][Next]_vars

\* The main loop keeps calling modbus_poll, the receive loop keeps running
\* (each pass either takes a byte or finds none and leaves), and a byte on the
\* line reaches the UART.  The master is free to stay silent.
LiveSpec ==
    /\ Spec
    /\ WF_vars(PollCall)
    /\ WF_vars(PollReceive \/ PollReturn)
    /\ WF_vars(ByteArrive)

(***************************************************************************)
(* modbus_crc16 called on its own (lines 41-56).                           *)
(***************************************************************************)
\* the request of the known vector, without its checksum
KnownVector == << 1, 3, 0, 0, 0, 1 >>

\* bytes with no, one, several and all bits set
CrcBytes == {0, 1, 128, 165, 255}

\* the sequences of length n over CrcBytes
SeqsOver[n \in 0 .. MaxCrcLen] ==
    IF n = 0 THEN {<< >>}
    ELSE {Append(q, b) : q \in SeqsOver[n - 1], b \in CrcBytes}

\* the inputs: every byte, every pair of bytes, the sequences over CrcBytes
\* up to MaxCrcLen bytes, and the known vector
CrcInputs ==
         { << a >> : a \in 0 .. 255 }
    \cup { << a, b >> : a \in 0 .. 255, b \in 0 .. 255 }
    \cup UNION { SeqsOver[n] : n \in 0 .. MaxCrcLen }
    \cup { KnownVector }

CrcInit ==
    /\ coils = [i \in 0 .. (COIL_COUNT \div 8) |-> 0]
    /\ discrete_inputs = [i \in 0 .. (DISCRETE_INPUT_COUNT \div 8) |-> 0]
    /\ holding_registers = [i \in 0 .. (HOLDING_REGISTER_COUNT - 1) |-> 0]
    /\ input_registers = [i \in 0 .. (INPUT_REGISTER_COUNT - 1) |-> 0]
    /\ rx_buffer = [i \in 0 .. (RX_BUFFER_SIZE - 1) |-> 0]
    /\ rx_length = 0
    /\ frame_received = FALSE
    /\ pc = "idle"
    /\ uart_rx = << >>
    /\ wire = << >>
    /\ silent = TRUE
    /\ mode = "request"
    /\ budget = 0
    /\ wrote = << >>
    /\ rx_gap = FALSE
    /\ calls = 0
    /\ req_len = 0
    /\ req_gap = FALSE
    /\ banks_changed = FALSE
    /\ access = {}
    /\ wrapped = FALSE
    /\ crc_data \in CrcInputs
    /\ crc_result = -1
    /\ tx = << >>

\* modbus_crc16(data, length) runs and returns
CrcCall ==
    /\ crc_result = -1
    /\ crc_result' = modbus_crc16(ArrayOf(crc_data), Len(crc_data))
    /\ UNCHANGED << bankVars, pollVars, ghostVars, lineVars, pc, crc_data >>

CrcSpec == CrcInit /\ [][CrcCall]_vars

(***************************************************************************)
(* Vocabulary of the properties.  After modbus_poll handed a frame to      *)
(* modbus_process_request (calls = 1) and until the next poll, the frame   *)
(* is rx_buffer[0 .. req_len - 1].                                         *)
(***************************************************************************)
Handed == calls >= 1
ReqStation == rx_buffer[0]
ReqFunction == rx_buffer[1]
ReqAddress == rx_buffer[2] * 256 + rx_buffer[3]
ReqQuantity == rx_buffer[4] * 256 + rx_buffer[5]
ReqIntact == ChecksumOk(rx_buffer, req_len)
NoResponse == tx = << >>
Untouched == ~banks_changed /\ access = {}

\* the exception response to function code fc of station st
ExceptionResponse(st, fc, code) ==
    Frame(<< st, IF fc >= 128 THEN fc ELSE fc + 128, code >>)

\* r is an exception response carrying code
IsException(r, code) ==
    Len(r) = 5 /\ r[2] >= 128 /\ r[3] = code

\* cells of a bank
Capacity(bank) ==
    CASE bank = "coils"             -> COIL_COUNT
      [] bank = "discrete_inputs"   -> DISCRETE_INPUT_COUNT
      [] bank = "holding_registers" -> HOLDING_REGISTER_COUNT
      [] bank = "input_registers"   -> INPUT_REGISTER_COUNT

\* the request names cells past the end of its bank
PastTheEnd ==
    \/ /\ ReqFunction \in {FC_READ_COILS, FC_READ_DISCRETE_INPUTS,
                           FC_READ_HOLDING_REGS, FC_READ_INPUT_REGS,
                           FC_WRITE_MULTIPLE_COILS, FC_WRITE_MULTIPLE_REGS}
       /\ ReqAddress + ReqQuantity > HOLDING_REGISTER_COUNT
    \/ /\ ReqFunction \in {FC_WRITE_SINGLE_COIL, FC_WRITE_SINGLE_REG}
       /\ ReqAddress >= HOLDING_REGISTER_COUNT

(***************************************************************************)
(* C1.  Timeout framing: bytes received before a silence longer than the   *)
(* inter-character threshold and bytes received after it are never part of *)
(* the same frame handed to modbus_process_request.                        *)
(***************************************************************************)
C1_TimeoutFraming == Handed => ~req_gap

(***************************************************************************)
(* C2.  Exactly one response per valid request: an intact frame addressed  *)
(* to station 1 causes exactly one uart_send, whatever its function code,  *)
(* and an intact frame addressed to station 0 causes none.                 *)
(***************************************************************************)
C2_OneResponsePerRequest ==
    Handed /\ ReqIntact =>
        /\ ReqStation = 1 => Len(tx) = 1
        /\ ReqStation = 0 => Len(tx) = 0

(***************************************************************************)
(* C3.  Silent drop of framing errors: a frame handed to                   *)
(* modbus_process_request that is shorter than 5 bytes or whose last two   *)
(* bytes are not the checksum of the bytes before them causes no uart_send *)
(* and leaves the four banks as they were.  (Stated with the cheap test    *)
(* first: a handed frame that was answered or changed a bank is intact.)   *)
(***************************************************************************)
C3_FramingErrorsDropped ==
    Handed => (NoResponse /\ Untouched) \/ ReqIntact

C3_Witness ==
    /\ Handed /\ req_len = 8 /\ ReqStation = 1 /\ ReqFunction = 7
    /\ ~ReqIntact
    /\ NoResponse

(***************************************************************************)
(* C4.  An intact frame whose station address is neither 1 nor 0 causes no *)
(* uart_send and changes no bank, whatever its function code and payload.  *)
(***************************************************************************)
C4_OtherStationIgnored ==
    Handed /\ ReqStation \notin {0, 1} /\ ReqIntact => NoResponse /\ Untouched

C4_Witness ==
    /\ Handed /\ ReqStation = 2 /\ ReqFunction = 7
    /\ ReqIntact
    /\ NoResponse

(***************************************************************************)
(* C5.  Memory safety of the data store: processing a request never reads  *)
(* or writes a bank cell at an index >= the bank's capacity, and a request *)
(* that names cells past the end of the bank is not performed (no cell is  *)
(* read or written, no bank changes).                                      *)
(***************************************************************************)
C5_BankAccessInRange ==
    Handed =>
        /\ \A c \in access : c[2] >= 0 /\ c[2] < Capacity(c[1])
        /\ PastTheEnd => Untouched

C5_Witness ==
    /\ Handed /\ ReqStation = 1 /\ ReqFunction = FC_READ_HOLDING_REGS
    /\ ReqAddress = 95 /\ ReqQuantity = 10
    /\ ReqIntact
    /\ Untouched

(***************************************************************************)
(* C6.  Bounds on reads: an intact read-holding-registers request to       *)
(* station 1 with start + quantity > 100 is answered with the exception    *)
(* IllegalDataAddress (0x02); one with start + quantity <= 100 and a       *)
(* quantity in 1 .. 125 is answered with a success response (function code *)
(* 0x03, 2 * quantity data bytes).                                         *)
(***************************************************************************)
C6_ReadBounds ==
    Handed /\ ReqStation = 1 /\ ReqFunction = FC_READ_HOLDING_REGS /\ ReqIntact =>
        IF ReqAddress + ReqQuantity > 100
        THEN tx = << ExceptionResponse(1, FC_READ_HOLDING_REGS,
                                       ERROR_ILLEGAL_DATA_ADDRESS) >>
        ELSE ReqQuantity \in 1 .. 125 =>
               /\ Len(tx) = 1
               /\ Len(tx[1]) = 5 + 2 * ReqQuantity
               /\ tx[1][1] = 1
               /\ tx[1][2] = FC_READ_HOLDING_REGS
               /\ tx[1][3] = 2 * ReqQuantity

(***************************************************************************)
(* C7.  Broadcast: an intact write-single-register request addressed to    *)
(* station 0 is applied to the store (the register takes the value) and    *)
(* causes no uart_send.                                                    *)
(***************************************************************************)
C7_BroadcastWriteApplied ==
    Handed /\ ReqStation = 0 /\ ReqFunction = FC_WRITE_SINGLE_REG
           /\ ReqAddress < HOLDING_REGISTER_COUNT /\ ReqIntact =>
        /\ holding_registers[ReqAddress] = ReqQuantity
        /\ NoResponse

(***************************************************************************)
(* C8.  Unrecognized function code: an intact frame addressed to station 1 *)
(* whose function code is none of the eight standard codes is answered     *)
(* with exactly the 5 bytes station, function code | 0x80, 0x01, crc low,  *)
(* crc high, and no bank changes.                                          *)
(***************************************************************************)
C8_IllegalFunctionResponse ==
    Handed /\ ReqStation = 1 /\ ReqFunction \notin StandardFCs /\ ReqIntact =>
        /\ tx = << ExceptionResponse(1, ReqFunction, 1) >>
        /\ Untouched

C8_Witness ==
    /\ Handed /\ ReqStation = 1 /\ ReqFunction = 7
    /\ ReqIntact
    /\ Len(tx) = 1 /\ Len(tx[1]) = 5

(***************************************************************************)
(* C9.  Recognized function codes are never rejected as illegal: the       *)
(* response to an intact request to station 1 with one of the eight        *)
(* standard function codes is never the exception IllegalFunction, and for *)
(* a request in range its function-code byte is the request's.             *)
(***************************************************************************)
C9_StandardCodesAccepted ==
    Handed /\ ReqStation = 1 /\ ReqFunction \in StandardFCs /\ ReqIntact =>
        \A i \in 1 .. Len(tx) :
            /\ ~IsException(tx[i], ERROR_ILLEGAL_FUNCTION)
            /\ ~PastTheEnd => tx[i][2] = ReqFunction

(***************************************************************************)
(* C10.  Write-then-read: after an intact write-single-register request to *)
(* station 1 for holding register a < 100 with value v was processed, an   *)
(* intact read-holding-registers request for (a, 1) is answered with v,    *)
(* high byte first.                                                        *)
(***************************************************************************)
C10_WriteThenRead ==
    Handed /\ ReqStation = 1 /\ ReqFunction = FC_READ_HOLDING_REGS
           /\ wrote # << >> /\ ReqAddress = wrote[1] /\ ReqQuantity = 1
           /\ ReqIntact =>
        tx = << Frame(<< 1, FC_READ_HOLDING_REGS, 2,
                         wrote[2] \div 256, wrote[2] % 256 >>) >>

(***************************************************************************)
(* C11.  Malformed byte count: an intact write-multiple-registers request  *)
(* to station 1 whose byte count (byte 6) is not 2 * quantity is answered  *)
(* with the exception IllegalDataValue (0x03), and no bank changes.        *)
(***************************************************************************)
C11_MalformedByteCount ==
    Handed /\ ReqStation = 1 /\ ReqFunction = FC_WRITE_MULTIPLE_REGS
           /\ req_len >= 9 /\ rx_buffer[6] # 2 * ReqQuantity /\ ReqIntact =>
        /\ tx = << ExceptionResponse(1, FC_WRITE_MULTIPLE_REGS,
                                     ERROR_ILLEGAL_DATA_VALUE) >>
        /\ Untouched

(***************************************************************************)
(* C12.  Overflow protection: the accumulator never holds more than 255    *)
(* bytes (at 256 it is emptied), and a poll in which the accumulator       *)
(* overflowed causes no uart_send, whatever bytes followed the overflow in *)
(* that burst.                                                             *)
(***************************************************************************)
C12_OverflowNoResponse ==
    /\ rx_length < RX_BUFFER_SIZE
    /\ wrapped => NoResponse

\* the master has sent all it will send and the line has been silent for
\* longer than the inter-character threshold
Quiet ==
    /\ wire = << >> /\ uart_rx = << >> /\ silent
    /\ ~ \E s \in Menu(mode) : Len(s) <= budget

(***************************************************************************)
(* C13.  Recovery to idle: once the transport has fallen silent and        *)
(* modbus_poll keeps being called, the assembler eventually is idle with   *)
(* an empty accumulator (rx_length = 0, frame_received = false).           *)
(***************************************************************************)
C13_RecoveryToIdle ==
    Quiet ~> (pc = "idle" /\ rx_length = 0 /\ ~frame_received)

(***************************************************************************)
(* C14.  No starvation by a busy receive loop: every modbus_poll call      *)
(* eventually leaves its receive loop, also while bytes keep arriving.     *)
(***************************************************************************)
C14_NoStarvation == (pc = "loop") ~> (pc = "idle")

(***************************************************************************)
(* C15.  Response checksum round trip: every frame passed to uart_send     *)
(* ends with modbus_crc16 of the bytes before it, low byte then high byte, *)
(* and, taken as a request, is long enough for and passes the checksum     *)
(* verification of modbus_process_request (lines 60, 68-70).               *)
(***************************************************************************)
C15_ResponseChecksumRoundTrip ==
    \A i \in 1 .. Len(tx) :
        LET n == Len(tx[i])
            crc == modbus_crc16(ArrayOf(tx[i]), n - 2)
        IN  /\ n >= 5
            /\ tx[i][n - 1] = crc % 256
            /\ tx[i][n] = crc \div 256
            /\ CrcOk(ArrayOf(tx[i]), n)

C15_Witness ==
    /\ Len(tx) = 1 /\ tx[1][1] = 1 /\ tx[1][2] = 200
    /\ CrcOk(ArrayOf(tx[1]), Len(tx[1]))

(***************************************************************************)
(* The Modbus CRC-16 as the CRC-16 with generator x^16 + x^15 + x^2 + 1,   *)
(* register preset to all ones, bytes and result bit-reversed, no final    *)
(* XOR: the register is shifted towards the high end, and the generator's  *)
(* low 16 coefficients (0x8005, the bit reversal of 0xA001) are            *)
(* subtracted whenever a one leaves it.                                    *)
(***************************************************************************)
\* the w-bit value x with its bits in reverse order
Reversed(x, w) ==
    LET rev[i \in 0 .. w] ==
          IF i = w THEN 0
          ELSE ((x \div Pow2[i + 1]) % 2) * Pow2[w - i] + rev[i + 1]
    IN  rev[0]

\* k shifts of the register towards the high end
RefShift[reg \in 0 .. 65535, k \in 0 .. 8] ==
    IF k = 0 THEN reg
    ELSE IF reg >= 32768
         THEN RefShift[BitXor16((2 * reg) % 65536, 32768 + 4 + 1), k - 1]
         ELSE RefShift[2 * reg, k - 1]

\* the register after the first n bytes of sequence q
RefRegister(q) ==
    LET reg[n \in 0 .. Len(q)] ==
          IF n = 0 THEN 65535
          ELSE RefShift[BitXor16(reg[n - 1], 256 * Reversed(q[n], 8)), 8]
    IN  reg[Len(q)]

RefCrc16(q) == Reversed(RefRegister(q), 16)

(***************************************************************************)
(* C16.  modbus_crc16 returns the Modbus CRC-16 of its input, a value      *)
(* within 16 bits, for every byte sequence; for 01 03 00 00 00 01 it       *)
(* returns 0x0A84.                                                         *)
(***************************************************************************)
C16_CrcIsModbusCrc16 ==
    crc_result # -1 =>
        /\ crc_result \in 0 .. 65535
        /\ crc_result = RefCrc16(crc_data)
        /\ crc_data = KnownVector => crc_result = 10 * 256 + 132

C16_Witness ==
    crc_data = KnownVector /\ crc_result = 10 * 256 + 132

\* the frame handed to modbus_process_request, as a byte sequence
HandedFrame == [i \in 1 .. req_len |-> rx_buffer[i - 1]]

(***************************************************************************)
(* C17.  Frame integrity across polls: every frame handed to               *)
(* modbus_process_request is exactly the byte sequence of one transmission *)
(* of the master, whole, however its bytes were split across modbus_poll   *)
(* calls, and never two of them in one.                                    *)
(***************************************************************************)
C17_FrameIntegrity ==
    Handed /\ mode \in {"request", "dialogue"} => HandedFrame \in Menu(mode)

(***************************************************************************)
(* C18.  Receive buffer safety: the index rx_length of the next write      *)
(* rx_buffer[rx_length++] is always in 0 .. 255, and modbus_process_request *)
(* is only called with a request_length in 0 .. 255.                       *)
(***************************************************************************)
C18_RxBufferIndexInRange ==
    /\ rx_length \in 0 .. (RX_BUFFER_SIZE - 1)
    /\ Handed => req_len \in 0 .. (RX_BUFFER_SIZE - 1)

C18_Witness ==
    wrapped /\ Handed /\ req_len = 0 /\ rx_length = 0

(***************************************************************************)
(* C19.  modbus_process_request never reads a request byte at an index     *)
(* >= request_length: every index it reads lies inside the frame it was    *)
(* handed.                                                                 *)
(***************************************************************************)
C19_ReadsWithinFrame ==
    Handed => \A i \in RequestReads(req_len) : i < req_len

(***************************************************************************)
(* C20.  Poll post-condition: when a modbus_poll call has returned,        *)
(* frame_received is false and rx_length <= 4, and rx_length = 0 if the    *)
(* call handed a frame to modbus_process_request; a modbus_poll call makes *)
(* at most one modbus_process_request call and at most one uart_send call. *)
(***************************************************************************)
C20_PollPostCondition ==
    /\ calls <= 1
    /\ Len(tx) <= 1
    /\ pc = "idle" =>
          /\ ~frame_received
          /\ rx_length <= 4
          /\ Handed => rx_length = 0

C20_Witness ==
    /\ pc = "idle" /\ Handed /\ req_len = 13 /\ Len(tx) = 1
    /\ rx_length = 0 /\ ~frame_received

=============================================================================
